---- MODULE Spec2Model ----
(***************************************************************************)
(* A model of the text RPG in src/rpg_game: the entity model (Character,   *)
(* Boss, Villain, Sidekick), the Inventory, the GameLogger, the turn       *)
(* engine Game.combat and the encounter sequencer                          *)
(* Game.handle_boss_battles.                                               *)
(*                                                                         *)
(* Python values are modelled as follows.  An object is a record of its    *)
(* attributes.  None is the record None.  A missing/empty string argument  *)
(* (falsy in Python) is "".  A dict is a function whose DOMAIN is its key  *)
(* set.  int(x * 1.2) and int(x * 0.25) on the non-negative integers that  *)
(* occur are (12 * x) \div 10 and x \div 4.  Console output, screen        *)
(* clearing, "press enter" pauses, debug_mode and the wall-clock timestamp *)
(* of a log record are presentation and are not part of the state.         *)
(* An exception that leaves Game.combat / Game.run is the phase "aborted". *)
(***************************************************************************)
EXTENDS Integers, Sequences, FiniteSets, TLC

VARIABLES
    phase,       \* position of the program (see Phases)
    i,           \* loop index of handle_boss_battles (0-based, as in the code)
    player,      \* Game.player : None or a Character record
    sidekicks,   \* Game.sidekicks : sequence of Sidekick records
    bosses,      \* Game.bosses : sequence of Boss / Villain records
    inventory,   \* Game.inventory : [items, equipment, gold]
    log,         \* Game.logger.log_history : sequence of records
    lastAction,  \* history: the branch taken by the last step
    ret,         \* the value returned by the last method called on its own
    args         \* the arguments of that call

vars ==
    <<phase, i, player, sidekicks, bosses, inventory, log, lastAction, ret, args>>

Phases ==
    {"new", "sequencer", "AwaitingAction", "EncounterWon", "EncounterLost",
     "RunWon", "RunLost", "aborted"}

None == [none |-> TRUE]

Max(a, b) == IF a >= b THEN a ELSE b

(***************************************************************************)
(* Bounds of the model (not program constants).                            *)
(***************************************************************************)
\* The companion's action is explored while the log holds fewer than MaxLog records.
MaxLog == 4

\* Highest player health drawn at entry to a later encounter.
MaxHealth == 100

(***************************************************************************)
(* constants.py                                                            *)
(***************************************************************************)
PLAYER_INITIAL_HEALTH == 110

PLAYER_INITIAL_DAMAGE == 10

GOBLIN_KING_NAME == "Goblin King"

GOBLIN_KING_HEALTH == 50

GOBLIN_KING_DAMAGE == 8

DARK_SORCERER_NAME == "Dark Sorcerer"

DARK_SORCERER_HEALTH == 60

DARK_SORCERER_DAMAGE == 9

SHADOW_KNIGHT_NAME == "Shadow Knight"

SHADOW_KNIGHT_HEALTH == 70

SHADOW_KNIGHT_DAMAGE == 12

WeaponNames == {"Rock", "Paper", "Scissors"}

HEALING_SPIRIT ==
    [name |-> "Healing Spirit", health |-> 50, damage |-> 3,
     weapon_name |-> "Healing Staff", weapon_damage |-> 2,
     ability |-> "Heal",
     ability_description |-> "Restores 15 health to the player"]

BATTLE_HOUND ==
    [name |-> "Battle Hound", health |-> 40, damage |-> 8,
     weapon_name |-> "Sharp Fangs", weapon_damage |-> 4,
     ability |-> "Bite",
     ability_description |-> "Deals 10 damage to the enemy"]

SHIELD_GUARDIAN ==
    [name |-> "Shield Guardian", health |-> 70, damage |-> 4,
     weapon_name |-> "Tower Shield", weapon_damage |-> 1,
     ability |-> "Protect",
     ability_description |-> "Reduces next incoming damage by 50%"]

(***************************************************************************)
(* str.lower() on the ability strings that occur.                          *)
(***************************************************************************)
Lower(s) ==
    CASE s = "Heal" -> "heal"
      [] s = "Bite" -> "bite"
      [] s = "Protect" -> "protect"
      [] s = "Dark Magic" -> "dark magic"
      [] OTHER -> s

\* str(n) for the menu numbers that occur
Str(n) == <<"1", "2", "3", "4", "5", "6", "7", "8", "9">>[n]

(***************************************************************************)
(* weapon.py is not part of src/; a Weapon carries a name and damage_bonus *)
(* (character.py:51, 154).                                                 *)
(***************************************************************************)
Weapon(name, damage_bonus) ==
    [cls |-> "Weapon", name |-> name, damage_bonus |-> damage_bonus]

(***************************************************************************)
(* character.py                                                            *)
(***************************************************************************)
\* the same threshold at every level (mutation of calculate_experience_to_next_level)
calculate_experience_to_next_level_Flat(level) == 100

calculate_experience_to_next_level(level) == 100 * level

\* Character.__init__ with every argument given
CharacterAt(name, health, damage, weapon_name, weapon_damage, level, experience) ==
    [cls |-> "Character", name |-> name, health |-> health, damage |-> damage,
     weapon |-> IF weapon_name # "" THEN Weapon(weapon_name, weapon_damage) ELSE None,
     is_boss |-> FALSE, level |-> level, experience |-> experience,
     experience_to_next_level |-> calculate_experience_to_next_level(level),
     ability |-> ""]

\* Character.__init__ with the defaults level = 1, experience = 0
Character(name, health, damage, weapon_name, weapon_damage) ==
    CharacterAt(name, health, damage, weapon_name, weapon_damage, 1, 0)

\* the surplus experience is carried over (mutation of level_up)
level_up_KeepsSurplus(c) ==
    [c EXCEPT !.level = c.level + 1,
              !.health = (c.health * 12) \div 10,
              !.damage = (c.damage * 12) \div 10,
              !.experience = c.experience - c.experience_to_next_level,
              !.experience_to_next_level =
                  calculate_experience_to_next_level(c.level + 1)]

\* the threshold is not recomputed (mutation of level_up)
level_up_StaleThreshold(c) ==
    [c EXCEPT !.level = c.level + 1,
              !.health = (c.health * 12) \div 10,
              !.damage = (c.damage * 12) \div 10,
              !.experience = 0]

level_up(c) ==
    [c EXCEPT !.level = c.level + 1,
              !.health = (c.health * 12) \div 10,
              !.damage = (c.damage * 12) \div 10,
              !.experience = 0,
              !.experience_to_next_level =
                  calculate_experience_to_next_level(c.level + 1)]

\* gain_experience without the threshold test (mutation of gain_experience)
gain_experience_NoLevelUp(c, amount) == [c EXCEPT !.experience = c.experience + amount]

\* the level rises only above the threshold (mutation of gain_experience)
gain_experience_AboveThreshold(c, amount) ==
    LET c1 == [c EXCEPT !.experience = c.experience + amount]
    IN  IF c1.experience > c1.experience_to_next_level THEN level_up(c1) ELSE c1

\* the character after gain_experience(amount); the method returns Leveled
gain_experience(c, amount) ==
    LET c1 == [c EXCEPT !.experience = c.experience + amount]
    IN  IF c1.experience >= c1.experience_to_next_level THEN level_up(c1) ELSE c1

Leveled(c, amount) == c.experience + amount >= c.experience_to_next_level

\* the health is stored as given (mutation of set_health)
set_health_NoClamp(c, new_health) == [c EXCEPT !.health = new_health]

set_health(c, new_health) == [c EXCEPT !.health = Max(0, new_health)]

\* the health is written without the clamp of set_health (mutation of take_damage)
take_damage_Unclamped(c, damage) == [c EXCEPT !.health = c.health - damage]

take_damage(c, damage) == set_health(c, c.health - damage)

\* the weapon is ignored (mutation of calculate_damage)
calculate_damage_NoWeapon(c, base_damage) == base_damage

calculate_damage(c, base_damage) ==
    IF c.weapon # None THEN base_damage + c.weapon.damage_bonus ELSE base_damage

is_alive(c) == c.health > 0

(***************************************************************************)
(* game_logger.py                                                          *)
(***************************************************************************)
\* the record is put at the front of the history (mutation of log_combat)
log_combat_AtFront(history, attacker, defender, damage, ability) ==
    <<[attacker |-> attacker.name, defender |-> defender.name,
       damage |-> damage,
       ability |-> IF ability # "" THEN ability ELSE "basic_attack"]>> \o history

log_combat(history, attacker, defender, damage, ability) ==
    Append(history,
           [attacker |-> attacker.name, defender |-> defender.name,
            damage |-> damage,
            ability |-> IF ability # "" THEN ability ELSE "basic_attack"])

\* the value returned is the health actually removed (mutation of attack)
attack_ReturnsDealt(self, target, history) ==
    LET total_damage == calculate_damage(self, self.damage)
    IN  [target |-> take_damage(target, total_damage),
         log |-> log_combat(history, self, target, total_damage, ""),
         ret |-> target.health - take_damage(target, total_damage).health]

\* the weapon's bonus is left out (mutation of attack)
attack_IgnoresWeapon(self, target, history) ==
    [target |-> take_damage(target, self.damage),
     log |-> log_combat(history, self, target, self.damage, ""),
     ret |-> self.damage]

\* Character.attack: the target and the log after the call, and the value returned
attack(self, target, history) ==
    LET total_damage == calculate_damage(self, self.damage)
    IN  [target |-> take_damage(target, total_damage),
         log |-> log_combat(history, self, target, total_damage, ""),
         ret |-> total_damage]

(***************************************************************************)
(* boss.py, villain.py, sidekick.py                                        *)
(***************************************************************************)
Boss(name, health, damage, weapon_name, weapon_damage) ==
    [Character(name, health, damage, weapon_name, weapon_damage)
        EXCEPT !.cls = "Boss", !.is_boss = TRUE]

Villain(name, health, damage, weapon_name, weapon_damage, special_ability) ==
    [Character(name, health, damage, weapon_name, weapon_damage)
        EXCEPT !.cls = "Villain", !.is_boss = TRUE, !.ability = special_ability]

Sidekick(name, health, damage, support_ability) ==
    [Character(name, health, damage, "", 0)
        EXCEPT !.cls = "Sidekick", !.ability = support_ability]

\* every ability string casts the spell (mutation of use_special_ability)
use_special_ability_AnyAbility(self, target, history) ==
    LET total_damage == calculate_damage(self, self.damage * 2)
    IN  [target |-> take_damage(target, total_damage),
         log |-> log_combat(history, self, target, total_damage, self.ability),
         ret |-> total_damage]

use_special_ability(self, target, history) ==
    IF Lower(self.ability) = "dark magic"
    THEN LET total_damage == calculate_damage(self, self.damage * 2)
         IN  [target |-> take_damage(target, total_damage),
              log |-> log_combat(history, self, target, total_damage, self.ability),
              ret |-> total_damage]
    ELSE [target |-> target, log |-> history, ret |-> 0]

\* the normal branch without the 25% bonus (mutation of villain_attack)
villain_attack_NoBonus(self, target, history, special) ==
    IF special
    THEN use_special_ability(self, target, history)
    ELSE LET total_damage == calculate_damage(self, self.damage)
         IN  [target |-> take_damage(target, total_damage),
              log |-> log_combat(history, self, target, total_damage, ""),
              ret |-> total_damage]

\* special is the outcome of random.random() < 0.2
villain_attack(self, target, history, special) ==
    IF special
    THEN use_special_ability(self, target, history)
    ELSE LET bonus_damage == self.damage \div 4
             total_damage == calculate_damage(self, self.damage + bonus_damage)
         IN  [target |-> take_damage(target, total_damage),
              log |-> log_combat(history, self, target, total_damage, ""),
              ret |-> total_damage]

\* the defense bonus of a looted armor is taken off the blow (mutation of enemy_attack)
enemy_attack_ArmorApplied(self, target, history, special) ==
    LET r == IF self.cls = "Villain"
             THEN villain_attack(self, target, history, special)
             ELSE attack(self, target, history)
        defense == IF \E n \in DOMAIN inventory.items :
                          inventory.items[n].item.cls = "Armor"
                   THEN inventory.items[CHOOSE n \in DOMAIN inventory.items :
                            inventory.items[n].item.cls = "Armor"].item.defense_bonus
                   ELSE 0
    IN  [r EXCEPT !.target = set_health(target, target.health - Max(0, r.ret - defense))]

\* enemy.attack(player, logger), dispatched on the enemy's class
enemy_attack(self, target, history, special) ==
    IF self.cls = "Villain"
    THEN villain_attack(self, target, history, special)
    ELSE attack(self, target, history)

\* the heal amount is damage // 2 whatever the name (mutation of use_support_ability)
use_support_ability_ByDamage(self, target, history) ==
    IF Lower(self.ability) = "heal" /\ self.damage \div 2 > 0
    THEN [target |-> set_health(target, target.health + self.damage \div 2),
          log |-> log_combat(history, self, target, 0 - self.damage \div 2,
                             self.ability)]
    ELSE [target |-> target, log |-> history]

\* target has no _max_health attribute, so max_health is float('inf') and
\* actual_heal = min(heal_amount, inf - health) = heal_amount
use_support_ability(self, target, history) ==
    IF Lower(self.ability) = "heal"
    THEN LET heal_amount == IF self.name = "Healing Spirit" THEN 15
                            ELSE self.damage \div 2
             actual_heal == heal_amount
         IN  IF actual_heal > 0
             THEN [target |-> set_health(target, target.health + heal_amount),
                   log |-> log_combat(history, self, target, 0 - actual_heal,
                                      self.ability)]
             ELSE [target |-> target, log |-> history]
    ELSE [target |-> target, log |-> history]

(***************************************************************************)
(* inventory.py.  The dict Inventory.items is a function from item name to *)
(* [item, quantity]; its DOMAIN is the set of keys.                        *)
(***************************************************************************)
Item(name, description, value) ==
    [cls |-> "Item", name |-> name, description |-> description, value |-> value]

Consumable(name, description, value, heal_amount) ==
    [cls |-> "Consumable", name |-> name, description |-> description,
     value |-> value, heal_amount |-> heal_amount]

Armor(name, description, value, defense_bonus) ==
    [cls |-> "Armor", name |-> name, description |-> description,
     value |-> value, defense_bonus |-> defense_bonus]

Inventory ==
    [items |-> <<>>, equipment |-> [weapon |-> None, armor |-> None], gold |-> 0]

add_item(inv, item, quantity) ==
    IF item.name \in DOMAIN inv.items
    THEN [inv EXCEPT !.items[item.name].quantity = @ + quantity]
    ELSE [inv EXCEPT !.items =
             [n \in (DOMAIN inv.items) \cup {item.name} |->
                 IF n = item.name THEN [item |-> item, quantity |-> quantity]
                 ELSE inv.items[n]]]

\* the quantity held of an item name (0 when there is no stack)
Quantity(inv, name) == IF name \in DOMAIN inv.items THEN inv.items[name].quantity ELSE 0

\* an insufficient stack is emptied (mutation of remove_item)
remove_item_TakesWhatIsThere(inv, item_name, quantity) ==
    IF item_name \in DOMAIN inv.items
    THEN [inv |-> [inv EXCEPT !.items =
                      [n \in (DOMAIN inv.items) \ {item_name} |-> inv.items[n]]],
          ret |-> inv.items[item_name].quantity >= quantity]
    ELSE [inv |-> inv, ret |-> FALSE]

\* a stack that reaches zero is kept (mutation of remove_item)
remove_item_KeepsEmptyStack(inv, item_name, quantity) ==
    IF item_name \in DOMAIN inv.items /\ inv.items[item_name].quantity >= quantity
    THEN [inv |-> [inv EXCEPT !.items[item_name].quantity = @ - quantity],
          ret |-> TRUE]
    ELSE [inv |-> inv, ret |-> FALSE]

\* the inventory after remove_item, and the value returned
remove_item(inv, item_name, quantity) ==
    IF item_name \in DOMAIN inv.items /\ inv.items[item_name].quantity >= quantity
    THEN LET left == inv.items[item_name].quantity - quantity
         IN  [inv |-> IF left = 0
                      THEN [inv EXCEPT !.items =
                               [n \in (DOMAIN inv.items) \ {item_name} |-> inv.items[n]]]
                      ELSE [inv EXCEPT !.items[item_name].quantity = left],
              ret |-> TRUE]
    ELSE [inv |-> inv, ret |-> FALSE]

\* the unit is taken from the stack in place (mutation of use_consumable)
use_consumable_NoDelete(inv, item) ==
    IF item.name \in DOMAIN inv.items /\ item.cls = "Consumable"
       /\ inv.items[item.name].quantity >= 1
    THEN [inv |-> [inv EXCEPT !.items[item.name].quantity = @ - 1], ret |-> TRUE]
    ELSE [inv |-> inv, ret |-> FALSE]

use_consumable(inv, item) ==
    IF item.name \in DOMAIN inv.items /\ item.cls = "Consumable"
    THEN remove_item(inv, item.name, 1)
    ELSE [inv |-> inv, ret |-> FALSE]

\* whatever is not a weapon goes to the armor slot (mutation of equip_item)
equip_item_ElseArmor(inv, item) ==
    IF item.cls = "Weapon"
    THEN [inv |-> [inv EXCEPT !.equipment.weapon = item], ret |-> TRUE]
    ELSE [inv |-> [inv EXCEPT !.equipment.armor = item], ret |-> TRUE]

\* the inventory after equip_item, and the value returned
equip_item(inv, item) ==
    IF item.cls = "Weapon"
    THEN [inv |-> [inv EXCEPT !.equipment.weapon = item], ret |-> TRUE]
    ELSE IF item.cls = "Armor"
    THEN [inv |-> [inv EXCEPT !.equipment.armor = item], ret |-> TRUE]
    ELSE [inv |-> inv, ret |-> FALSE]

\* get_total_value iterates self.items.items(), whose pairs are (name, entry):
\* the first pair raises AttributeError at item.value, since a str has no value;
\* only an inventory without stacks gets past the loop and returns the gold
get_total_value(inv) ==
    IF DOMAIN inv.items # {}
    THEN [raised |-> TRUE, ret |-> None]
    ELSE [raised |-> FALSE, ret |-> inv.gold]

(***************************************************************************)
(* game.py                                                                 *)
(***************************************************************************)
\* what the player may type at a prompt
Inputs == {"0", "1", "2", "3", "4"}

PlayerNames == {"Hero"}

\* random.randint(1, 5) in choose_weapon
WeaponBonuses == 1 .. 5

\* the list self.bosses built by setup_game
InitialBosses ==
    <<Boss(GOBLIN_KING_NAME, GOBLIN_KING_HEALTH, GOBLIN_KING_DAMAGE, "", 0),
      Boss(DARK_SORCERER_NAME, DARK_SORCERER_HEALTH, DARK_SORCERER_DAMAGE, "", 0),
      Villain(SHADOW_KNIGHT_NAME, SHADOW_KNIGHT_HEALTH, SHADOW_KNIGHT_DAMAGE,
              "Dark Sword", 5, "Dark Magic")>>

\* whatever is typed is returned (mutation of get_valid_input)
get_valid_input_AcceptsAll(typed, options) ==
    [valid |-> TRUE, type |-> "str", value |-> typed]

\* get_valid_input returns the text typed, a str, once it is one of options
get_valid_input(typed, options) ==
    [valid |-> \E k \in 1 .. Len(options) : options[k] = typed,
     type |-> "str", value |-> typed]

\* options with "3" offered whether or not a companion is present (mutation of Options)
Options_AlwaysSidekick(sk) == <<"1", "2", "3", "4">>

\* the list options built by combat for the current menu
Options(sk) ==
    LET base == IF sk # <<>> THEN <<"1", "2", "3">> ELSE <<"1", "2">>
    IN  Append(base, Str(Len(base) + 1))

inventory_option(sk) == Options(sk)[Len(Options(sk))]

\* the if / elif chain of combat on a validated choice
Dispatch(choice, sk) ==
    IF choice = "1" THEN "Attack"
    ELSE IF choice = "2" THEN "UseItem"
    ELSE IF choice = "3" /\ sk # <<>> THEN "SidekickAction"
    ELSE IF choice = inventory_option(sk) THEN "ViewInventory"
    ELSE "none"

\* continue also after the companion's action (mutation of SkipsEnemyTurn)
SkipsEnemyTurn_AlsoSidekick(action) ==
    action \in {"UseItem", "SidekickAction", "ViewInventory"}

\* no continue after display_inventory (mutation of SkipsEnemyTurn)
SkipsEnemyTurn_OnlyUseItem(action) == action = "UseItem"

\* no branch ends with continue (mutation of SkipsEnemyTurn)
SkipsEnemyTurn_Never(action) == FALSE

\* the branches of combat that end with continue
SkipsEnemyTurn(action) == action \in {"UseItem", "ViewInventory"}

\* the Consumable items held, as the list use_item builds
Consumables(inv) ==
    LET names == {n \in DOMAIN inv.items : inv.items[n].item.cls = "Consumable"}
        RECURSIVE ToSeq(_)
        ToSeq(S) == IF S = {} THEN <<>>
                    ELSE LET n == CHOOSE m \in S : TRUE
                         IN  <<inv.items[n].item>> \o ToSeq(S \ {n})
    IN  ToSeq(names)

\* list[key] accepts an int key only
SubscriptOk(key) == key.type = "int"

\* use_item(character): typed is the text entered at the item prompt.
\* raised is TRUE when consumables[choice] raises TypeError.
use_item(inv, character, typed) ==
    LET consumables == Consumables(inv)
        choice == get_valid_input(typed,
                      [k \in 1 .. Len(consumables) |-> Str(k)])
    IN  IF consumables = <<>>
        THEN [inv |-> inv, character |-> character, raised |-> FALSE, prompted |-> FALSE]
        ELSE IF ~SubscriptOk(choice)
        THEN [inv |-> inv, character |-> character, raised |-> TRUE, prompted |-> TRUE]
        ELSE LET item == consumables[choice.value]
                 used == use_consumable(inv, item)
             IN  [inv |-> used.inv,
                  character |-> IF used.ret
                                THEN set_health(character, character.health + item.heal_amount)
                                ELSE character,
                  raised |-> FALSE, prompted |-> TRUE]

\* add_loot with the gold taken from the enemy's health (mutation of add_loot)
add_loot_GoldFromHealth(inv, enemy, potion, armor) ==
    LET inv1 == [inv EXCEPT !.gold = inv.gold + enemy.health * 5]
        inv2 == IF potion
                THEN add_item(inv1, Consumable("Health Potion", "Restores 20 health", 10, 20), 1)
                ELSE inv1
    IN  IF armor
        THEN add_item(inv2, Armor(enemy.name \o "'s Armor",
                                  "Armor dropped by " \o enemy.name, 50,
                                  enemy.damage \div 2), 1)
        ELSE inv2

\* add_loot with the armor roll made only when no potion dropped (mutation of add_loot)
add_loot_ArmorElif(inv, enemy, potion, armor) ==
    LET inv1 == [inv EXCEPT !.gold = inv.gold + enemy.damage * 5]
    IN  IF potion
        THEN add_item(inv1, Consumable("Health Potion", "Restores 20 health", 10, 20), 1)
        ELSE IF armor
        THEN add_item(inv1, Armor(enemy.name \o "'s Armor",
                                  "Armor dropped by " \o enemy.name, 50,
                                  enemy.damage \div 2), 1)
        ELSE inv1

\* add_loot(enemy): potion and armor are the outcomes of the two random rolls
add_loot(inv, enemy, potion, armor) ==
    LET inv1 == [inv EXCEPT !.gold = inv.gold + enemy.damage * 5]
        inv2 == IF potion
                THEN add_item(inv1, Consumable("Health Potion", "Restores 20 health", 10, 20), 1)
                ELSE inv1
    IN  IF armor
        THEN add_item(inv2, Armor(enemy.name \o "'s Armor",
                                  "Armor dropped by " \o enemy.name, 50,
                                  enemy.damage \div 2), 1)
        ELSE inv2

\* keys choose_sidekick reads from each sidekick constant
SidekickKeys == {"name", "health", "damage", "ability", "description"}

SidekickConstants == <<HEALING_SPIRIT, BATTLE_HOUND, SHIELD_GUARDIAN>>

\* building the local list sidekicks raises KeyError when a key is missing
choose_sidekick_raises ==
    \E k \in 1 .. Len(SidekickConstants) :
        ~(SidekickKeys \subseteq DOMAIN SidekickConstants[k])

\* the companion list after a valid selection "1" .. "3"
selected_sidekicks(choice) ==
    LET k == CHOOSE n \in 1 .. 3 : Str(n) = choice
        selected == SidekickConstants[k]
    IN  <<Sidekick(selected.name, selected.health, selected.damage, selected.ability)>>

(***************************************************************************)
(* Game.__init__                                                           *)
(***************************************************************************)
Init ==
    /\ phase = "new"
    /\ i = 0
    /\ player = None
    /\ sidekicks = <<>>
    /\ bosses = <<>>
    /\ inventory = Inventory
    /\ log = <<>>
    /\ lastAction = "none"
    /\ ret = None
    /\ args = <<>>

(***************************************************************************)
(* show_intro / setup_game / choose_weapon: the player is created with the *)
(* chosen weapon, the companion list is emptied and the bosses are built;  *)
(* run() then enters handle_boss_battles.                                  *)
(***************************************************************************)
SetupGame(name, weapon_name, weapon_damage) ==
    /\ phase = "new"
    /\ player' = Character(name, PLAYER_INITIAL_HEALTH, PLAYER_INITIAL_DAMAGE,
                           weapon_name, weapon_damage)
    /\ sidekicks' = <<>>
    /\ bosses' = InitialBosses
    /\ phase' = "sequencer"
    /\ i' = 0
    /\ lastAction' = "SetupGame"
    /\ UNCHANGED <<inventory, log, ret, args>>

\* the test of combat's while loop
LoopCondition(p, enemy) == p.health > 0 /\ enemy.health > 0

\* the phase in which combat is after its loop test
CombatPhase(p, enemy) ==
    IF LoopCondition(p, enemy) THEN "AwaitingAction" ELSE "EncounterNone"

(***************************************************************************)
(* handle_boss_battles, top of the loop body for boss i: choose_sidekick   *)
(* when i = 1, then introduce_boss and the call of combat.  typed is the   *)
(* text entered at the companion prompt.                                   *)
(***************************************************************************)
BeginEncounter(typed) ==
    /\ phase = "sequencer"
    /\ IF i = 1
       THEN IF choose_sidekick_raises
            THEN /\ phase' = "aborted"
                 /\ lastAction' = "KeyError"
                 /\ UNCHANGED sidekicks
            ELSE IF typed \in {"1", "2", "3"}
            THEN /\ sidekicks' = selected_sidekicks(typed)
                 /\ phase' = CombatPhase(player, bosses[i + 1])
                 /\ lastAction' = "ChooseSidekick"
            ELSE /\ lastAction' = "InvalidInput"
                 /\ UNCHANGED <<phase, sidekicks>>
       ELSE /\ phase' = CombatPhase(player, bosses[i + 1])
            /\ lastAction' = "BeginEncounter"
            /\ UNCHANGED sidekicks
    /\ UNCHANGED <<i, player, bosses, inventory, log, ret, args>>

(***************************************************************************)
(* handle_boss_battles after combat returned: a falsy result ends the run  *)
(* as a loss; otherwise the loop goes to the next boss, or ends the run as *)
(* a win after the last one.                                               *)
(***************************************************************************)
NextAfterWin(k) == IF k + 1 < Len(InitialBosses) THEN "sequencer" ELSE "RunWon"

\* the player is restored to full health after a win (mutation of EndEncounter)
EndEncounter_Restores ==
    /\ phase \in {"EncounterWon", "EncounterLost", "EncounterNone"}
    /\ IF phase = "EncounterWon"
       THEN /\ phase' = NextAfterWin(i)
            /\ i' = IF NextAfterWin(i) = "sequencer" THEN i + 1 ELSE i
            /\ player' = set_health(player, PLAYER_INITIAL_HEALTH)
       ELSE /\ phase' = "RunLost"
            /\ UNCHANGED <<i, player>>
    /\ lastAction' = "EndEncounter"
    /\ UNCHANGED <<sidekicks, bosses, inventory, log, ret, args>>

EndEncounter ==
    /\ phase \in {"EncounterWon", "EncounterLost", "EncounterNone"}
    /\ IF phase = "EncounterWon"
       THEN /\ phase' = NextAfterWin(i)
            /\ i' = IF NextAfterWin(i) = "sequencer" THEN i + 1 ELSE i
       ELSE /\ phase' = "RunLost"
            /\ UNCHANGED i
    /\ lastAction' = "EndEncounter"
    /\ UNCHANGED <<player, sidekicks, bosses, inventory, log, ret, args>>

(***************************************************************************)
(* One pass of combat's loop body.  typed is the text entered at the       *)
(* action menu, typedItem the text entered at use_item's prompt; potion,   *)
(* armor and special are the outcomes of the random rolls of add_loot and  *)
(* Villain.attack.                                                         *)
(***************************************************************************)
\* the companion's action is an attack on the enemy (mutation of PlayerTurn)
PlayerTurn_CompanionAttacks(action, typedItem) ==
    LET enemy == bosses[i + 1]
        same == [player |-> player, enemy |-> enemy, inventory |-> inventory,
                 log |-> log, raised |-> FALSE]
    IN  CASE action = "Attack" ->
               LET a == attack(player, enemy, log)
               IN  [same EXCEPT !.enemy = a.target, !.log = a.log]
          [] action = "UseItem" ->
               LET u == use_item(inventory, player, typedItem)
               IN  [same EXCEPT !.player = u.character, !.inventory = u.inv,
                                !.raised = u.raised]
          [] action = "SidekickAction" ->
               LET a == attack(sidekicks[1], enemy, log)
               IN  [same EXCEPT !.enemy = a.target, !.log = a.log]
          [] OTHER -> same

\* the player's part of the round
PlayerTurn(action, typedItem) ==
    LET enemy == bosses[i + 1]
        same == [player |-> player, enemy |-> enemy, inventory |-> inventory,
                 log |-> log, raised |-> FALSE]
    IN  CASE action = "Attack" ->
               LET a == attack(player, enemy, log)
               IN  [same EXCEPT !.enemy = a.target, !.log = a.log]
          [] action = "UseItem" ->
               LET u == use_item(inventory, player, typedItem)
               IN  [same EXCEPT !.player = u.character, !.inventory = u.inv,
                                !.raised = u.raised]
          [] action = "SidekickAction" ->
               LET h == use_support_ability(sidekicks[1], player, log)
               IN  [same EXCEPT !.player = h.target, !.log = h.log]
          [] OTHER -> same

\* the bound on the rounds spent on the companion
WithinBound(action) == action = "SidekickAction" => Len(log) < MaxLog

\* an input the round does not read is fixed, so that each step is generated once
UnreadInputsFixed(action, typedItem, potion, armor, special) ==
    /\ (action = "UseItem" /\ Consumables(inventory) # <<>>) \/ typedItem = "1"
    /\ action = "Attack" \/ (~potion /\ ~armor)
    /\ (bosses[i + 1].cls = "Villain" /\ ~SkipsEnemyTurn(action)) \/ ~special

\* use_item returns only once a listed item number was typed
ItemPromptAnswered(action, typedItem) ==
    (action = "UseItem" /\ Consumables(inventory) # <<>>) =>
        get_valid_input(typedItem,
            [k \in 1 .. Len(Consumables(inventory)) |-> Str(k)]).valid

CombatRound(typed, typedItem, potion, armor, special) ==
    /\ phase = "AwaitingAction"
    /\ LET choice == get_valid_input(typed, Options(sidekicks))
           action == Dispatch(typed, sidekicks)
           t == PlayerTurn(action, typedItem)
       IN  IF ~choice.valid
           THEN /\ UnreadInputsFixed("none", typedItem, potion, armor, special)
                /\ lastAction' = "InvalidInput"
                /\ UNCHANGED <<phase, player, bosses, inventory, log>>
           ELSE /\ UnreadInputsFixed(action, typedItem, potion, armor, special)
                /\ WithinBound(action)
                /\ ItemPromptAnswered(action, typedItem)
                /\ lastAction' = action
                /\ IF t.raised
                   THEN /\ phase' = "aborted"
                        /\ UNCHANGED <<player, bosses, inventory, log>>
                   ELSE IF action = "Attack" /\ t.enemy.health <= 0
                   THEN /\ player' = gain_experience(t.player, t.enemy.damage * 10)
                        /\ inventory' = add_loot(t.inventory, t.enemy, potion, armor)
                        /\ bosses' = [bosses EXCEPT ![i + 1] = t.enemy]
                        /\ log' = t.log
                        /\ phase' = "EncounterWon"
                   ELSE IF SkipsEnemyTurn(action)
                   THEN /\ player' = t.player
                        /\ inventory' = t.inventory
                        /\ bosses' = [bosses EXCEPT ![i + 1] = t.enemy]
                        /\ log' = t.log
                        /\ phase' = CombatPhase(t.player, t.enemy)
                   ELSE IF t.enemy.health > 0
                   THEN LET e == enemy_attack(t.enemy, t.player, t.log, special)
                        IN  /\ player' = e.target
                            /\ inventory' = t.inventory
                            /\ bosses' = [bosses EXCEPT ![i + 1] = t.enemy]
                            /\ log' = e.log
                            /\ phase' = IF e.target.health <= 0
                                        THEN "EncounterLost"
                                        ELSE CombatPhase(e.target, t.enemy)
                   ELSE /\ player' = t.player
                        /\ inventory' = t.inventory
                        /\ bosses' = [bosses EXCEPT ![i + 1] = t.enemy]
                        /\ log' = t.log
                        /\ phase' = CombatPhase(t.player, t.enemy)
    /\ UNCHANGED <<i, sidekicks, ret, args>>

Setup == \E n \in PlayerNames, w \in WeaponNames, d \in WeaponBonuses : SetupGame(n, w, d)

Begin == \E typed \in Inputs : BeginEncounter(typed)

Round ==
    \E typed \in Inputs, typedItem \in Inputs, potion \in BOOLEAN,
       armor \in BOOLEAN, special \in BOOLEAN :
        CombatRound(typed, typedItem, potion, armor, special)

(***************************************************************************)
(* The program: Game().run()                                               *)
(***************************************************************************)
Next == Setup \/ Begin \/ Round \/ EndEncounter

Spec == Init /\ [][Next]_vars

(***************************************************************************)
(* The turn engine alone: Game.combat(player, bosses[k]) entered for       *)
(* encounter k with the game state the sequencer hands to it: the earlier  *)
(* bosses defeated, their experience and loot received, no companion in    *)
(* encounter 0 and one of the three companions afterwards.  The player's   *)
(* health at entry to a later encounter is drawn from EntryHealths.        *)
(***************************************************************************)
EntryHealths == {MaxHealth - 50, MaxHealth}

\* the player record at entry to encounter k (experience of the k wins applied)
RECURSIVE PlayerAtEntry(_, _)
PlayerAtEntry(p, k) ==
    IF k = 0 THEN p
    ELSE gain_experience(PlayerAtEntry(p, k - 1), InitialBosses[k].damage * 10)

\* the inventory at entry to encounter k: the loot of the k wins, where either
\* every roll succeeded (drops) or none did
RECURSIVE InventoryAtEntry(_, _)
InventoryAtEntry(k, drops) ==
    IF k = 0 THEN Inventory
    ELSE add_loot(InventoryAtEntry(k - 1, drops), InitialBosses[k], drops, drops)

BossesAtEntry(k) ==
    [j \in 1 .. Len(InitialBosses) |->
        IF j <= k THEN set_health(InitialBosses[j], 0) ELSE InitialBosses[j]]

CombatInit ==
    \E k \in 0 .. 2, n \in PlayerNames, w \in {"Rock"}, d \in WeaponBonuses,
       h \in EntryHealths, c \in {"1", "2", "3"}, drops \in BOOLEAN :
        LET fresh == Character(n, PLAYER_INITIAL_HEALTH, PLAYER_INITIAL_DAMAGE, w, d)
        IN  /\ phase = "AwaitingAction"
            /\ i = k
            /\ player = IF k = 0 THEN fresh
                        ELSE [PlayerAtEntry(fresh, k) EXCEPT !.health = h]
            /\ sidekicks = IF k = 0 THEN <<>> ELSE selected_sidekicks(c)
            /\ bosses = BossesAtEntry(k)
            /\ inventory = InventoryAtEntry(k, drops)
            /\ log = <<>>
            /\ lastAction = "none"
            /\ ret = None
            /\ args = <<>>

CombatNext == Round

CombatSpec == CombatInit /\ [][CombatNext]_vars

(***************************************************************************)
(* The entity model alone: the methods of Character, Boss, Villain and     *)
(* Sidekick called on their own, outside Game.combat.  phase names the     *)
(* class whose methods are called.  player is the Character the calls act  *)
(* on, sidekicks[1] the Sidekick and bosses[1] the Boss or Villain that    *)
(* makes the call.  The objects are constructed in EntityInit from the     *)
(* argument sets below; lastAction, args and ret are the method called     *)
(* last, its arguments and the value it returned.                          *)
(***************************************************************************)
\* gain_experience and level_up are called while the level is below MaxLevel
MaxLevel == 3

\* calculate_damage is called with the bases 0 .. MaxBase
MaxBase == 3

\* the largest base damage of a drawn healer
MaxHealerDamage == 9

TargetHealths == {0, 1, 20, 95, MaxHealth}

DamageAmounts == {0, 30, 1000}

ExperienceAmounts == {0, 50, 90, 100, 1000}

\* (weapon_name, weapon_damage) of a drawn character; "" is no weapon
WeaponDraws == {<<"", 0>>, <<"Stick", 0>>, <<"Rock", 1>>, <<"Rock", 5>>}

SidekickDraws ==
    {selected_sidekicks(c)[1] : c \in {"1", "2", "3"}}
    \cup {Sidekick("Forest Sprite", 30, d, a) :
             d \in 0 .. MaxHealerDamage, a \in {"Heal", "heal"}}
    \cup {Sidekick(HEALING_SPIRIT.name, HEALING_SPIRIT.health, 0, "Heal"),
          Sidekick(HEALING_SPIRIT.name, HEALING_SPIRIT.health,
                   HEALING_SPIRIT.damage, "Bite")}

VillainDraws ==
    {Villain(SHADOW_KNIGHT_NAME, SHADOW_KNIGHT_HEALTH, d, w[1], w[2], a) :
        d \in {7, SHADOW_KNIGHT_DAMAGE},
        w \in {<<"", 0>>, <<"Dark Sword", 5>>},
        a \in {"Dark Magic", "dark magic", "Fire Storm"}}

BossDraws ==
    {InitialBosses[1], InitialBosses[2], Boss("Ogre", 30, 8, "Club", 3)}

Classes == {"Sidekick", "Villain", "Boss", "Character"}

EntityInit ==
    /\ phase \in Classes
    /\ i = 0
    /\ \E h \in TargetHealths, w \in WeaponDraws, d \in {7, PLAYER_INITIAL_DAMAGE},
          l \in 1 .. 2, e \in {0, 50} :
           /\ (phase = "Character") \/ (l = 1 /\ e = 0 /\ d = PLAYER_INITIAL_DAMAGE)
           /\ (phase \in {"Boss", "Character"}) \/ w = <<"Rock", 1>>
           /\ player = CharacterAt("Hero", h, d, w[1], w[2], l, e)
    /\ sidekicks \in IF phase = "Sidekick" THEN {<<s>> : s \in SidekickDraws}
                     ELSE {<<>>}
    /\ bosses \in CASE phase = "Villain" -> {<<v>> : v \in VillainDraws}
                    [] phase = "Boss" -> {<<b>> : b \in BossDraws}
                    [] OTHER -> {<<>>}
    /\ inventory = Inventory
    /\ log = <<>>
    /\ lastAction = "none"
    /\ ret = None
    /\ args = <<>>

\* sidekicks[1].use_support_ability(player, logger)
UseSupportAbility ==
    /\ phase = "Sidekick"
    /\ Len(log) < MaxLog
    /\ LET r == use_support_ability(sidekicks[1], player, log)
       IN  /\ player' = r.target
           /\ log' = r.log
    /\ lastAction' = "use_support_ability"
    /\ ret' = None
    /\ args' = <<>>
    /\ UNCHANGED <<phase, i, sidekicks, bosses, inventory>>

\* bosses[1].use_special_ability(player, logger)
UseSpecialAbility ==
    /\ phase = "Villain"
    /\ Len(log) < MaxLog
    /\ LET r == use_special_ability(bosses[1], player, log)
       IN  /\ player' = r.target
           /\ log' = r.log
           /\ ret' = r.ret
    /\ lastAction' = "use_special_ability"
    /\ args' = <<>>
    /\ UNCHANGED <<phase, i, sidekicks, bosses, inventory>>

\* bosses[1].attack(player, logger) of a Villain; special is the random roll
VillainAttack(special) ==
    /\ phase = "Villain"
    /\ Len(log) < MaxLog
    /\ LET r == villain_attack(bosses[1], player, log, special)
       IN  /\ player' = r.target
           /\ log' = r.log
           /\ ret' = r.ret
    /\ lastAction' = "Villain.attack"
    /\ args' = <<special>>
    /\ UNCHANGED <<phase, i, sidekicks, bosses, inventory>>

\* bosses[1].attack(player, logger) of a Boss
BossAttack ==
    /\ phase = "Boss"
    /\ Len(log) < MaxLog
    /\ LET r == attack(bosses[1], player, log)
       IN  /\ player' = r.target
           /\ log' = r.log
           /\ ret' = r.ret
    /\ lastAction' = "Boss.attack"
    /\ args' = <<>>
    /\ UNCHANGED <<phase, i, sidekicks, bosses, inventory>>

\* player.attack(bosses[1], logger)
PlayerAttack ==
    /\ phase = "Boss"
    /\ Len(log) < MaxLog
    /\ LET r == attack(player, bosses[1], log)
       IN  /\ bosses' = <<r.target>>
           /\ log' = r.log
           /\ ret' = r.ret
    /\ lastAction' = "Character.attack"
    /\ args' = <<>>
    /\ UNCHANGED <<phase, i, player, sidekicks, inventory>>

\* player.take_damage(damage)
TakeDamage(damage) ==
    /\ phase = "Character"
    /\ player' = take_damage(player, damage)
    /\ lastAction' = "take_damage"
    /\ ret' = None
    /\ args' = <<damage>>
    /\ UNCHANGED <<phase, i, sidekicks, bosses, inventory, log>>

\* player.calculate_damage(base_damage)
CalculateDamage(base_damage) ==
    /\ phase = "Character"
    /\ ret' = calculate_damage(player, base_damage)
    /\ lastAction' = "calculate_damage"
    /\ args' = <<base_damage>>
    /\ UNCHANGED <<phase, i, player, sidekicks, bosses, inventory, log>>

\* player.gain_experience(amount)
GainExperience(amount) ==
    /\ phase = "Character"
    /\ player.level < MaxLevel
    /\ player' = gain_experience(player, amount)
    /\ ret' = Leveled(player, amount)
    /\ lastAction' = "gain_experience"
    /\ args' = <<amount>>
    /\ UNCHANGED <<phase, i, sidekicks, bosses, inventory, log>>

\* player.level_up()
LevelUp ==
    /\ phase = "Character"
    /\ player.level < MaxLevel
    /\ player' = level_up(player)
    /\ lastAction' = "level_up"
    /\ ret' = None
    /\ args' = <<>>
    /\ UNCHANGED <<phase, i, sidekicks, bosses, inventory, log>>

EntityNext ==
    \/ UseSupportAbility
    \/ UseSpecialAbility
    \/ \E special \in BOOLEAN : VillainAttack(special)
    \/ BossAttack
    \/ PlayerAttack
    \/ \E damage \in DamageAmounts : TakeDamage(damage)
    \/ \E base_damage \in 0 .. MaxBase : CalculateDamage(base_damage)
    \/ \E amount \in ExperienceAmounts : GainExperience(amount)
    \/ LevelUp

EntitySpec == EntityInit /\ [][EntityNext]_vars

(***************************************************************************)
(* The Inventory alone: its methods called on an Inventory() that holds    *)
(* the gold of earlier wins.  An exception that leaves a method is the     *)
(* phase "aborted".                                                        *)
(***************************************************************************)
\* the largest quantity argument drawn
MaxQuantity == 2

\* add_item is called while the stack holds at most MaxStack
MaxStack == 3

Potion == Consumable("Potion", "Restores 20 health", 10, 20)

ItemDraws ==
    {Potion, Armor("Shield", "A wooden shield", 25, 2), Item("Gem", "A red gem", 50)}

NameDraws == {it.name : it \in ItemDraws} \cup {"Key"}

\* the arguments of equip_item: the items above and a weapon
EquipDraws == ItemDraws \cup {Weapon("Rock", 5)}

GoldDraws == {0, 80}

InventoryInit ==
    /\ phase = "Inventory"
    /\ i = 0
    /\ player = None
    /\ sidekicks = <<>>
    /\ bosses = <<>>
    /\ inventory \in {[Inventory EXCEPT !.gold = g] : g \in GoldDraws}
    /\ log = <<>>
    /\ lastAction = "none"
    /\ ret = None
    /\ args = <<>>

\* inventory.add_item(item, quantity)
AddItem(item, quantity) ==
    /\ phase = "Inventory"
    /\ Quantity(inventory, item.name) + quantity <= MaxStack
    /\ inventory' = add_item(inventory, item, quantity)
    /\ lastAction' = "add_item"
    /\ ret' = None
    /\ args' = <<item.name, quantity>>
    /\ UNCHANGED <<phase, i, player, sidekicks, bosses, log>>

\* inventory.remove_item(item_name, quantity)
RemoveItem(item_name, quantity) ==
    /\ phase = "Inventory"
    /\ LET r == remove_item(inventory, item_name, quantity)
       IN  /\ inventory' = r.inv
           /\ ret' = r.ret
    /\ lastAction' = "remove_item"
    /\ args' = <<item_name, quantity>>
    /\ UNCHANGED <<phase, i, player, sidekicks, bosses, log>>

\* inventory.use_consumable(item)
UseConsumable(item) ==
    /\ phase = "Inventory"
    /\ LET r == use_consumable(inventory, item)
       IN  /\ inventory' = r.inv
           /\ ret' = r.ret
    /\ lastAction' = "use_consumable"
    /\ args' = <<item.name>>
    /\ UNCHANGED <<phase, i, player, sidekicks, bosses, log>>

\* inventory.equip_item(item)
EquipItem(item) ==
    /\ phase = "Inventory"
    /\ LET r == equip_item(inventory, item)
       IN  /\ inventory' = r.inv
           /\ ret' = r.ret
    /\ lastAction' = "equip_item"
    /\ args' = <<item.name>>
    /\ UNCHANGED <<phase, i, player, sidekicks, bosses, log>>

\* inventory.get_total_value()
GetTotalValue ==
    /\ phase = "Inventory"
    /\ LET r == get_total_value(inventory)
       IN  /\ phase' = IF r.raised THEN "aborted" ELSE phase
           /\ ret' = r.ret
    /\ lastAction' = "get_total_value"
    /\ args' = <<>>
    /\ UNCHANGED <<i, player, sidekicks, bosses, inventory, log>>

InventoryNext ==
    \/ \E item \in ItemDraws, quantity \in 0 .. MaxQuantity : AddItem(item, quantity)
    \/ \E item_name \in NameDraws, quantity \in 0 .. MaxQuantity :
           RemoveItem(item_name, quantity)
    \/ \E item \in ItemDraws : UseConsumable(item)
    \/ \E item \in EquipDraws : EquipItem(item)
    \/ GetTotalValue

InventorySpec == InventoryInit /\ [][InventoryNext]_vars

(***************************************************************************)
(* The Inventory called with quantity arguments of at least 1 only.        *)
(***************************************************************************)
PositiveNext ==
    \/ \E item \in ItemDraws, quantity \in 1 .. MaxQuantity : AddItem(item, quantity)
    \/ \E item_name \in NameDraws, quantity \in 1 .. MaxQuantity :
           RemoveItem(item_name, quantity)
    \/ \E item \in ItemDraws : UseConsumable(item)

PositiveSpec == InventoryInit /\ [][PositiveNext]_vars

(***************************************************************************)
(* Properties.                                                             *)
(***************************************************************************)
Enemy == bosses[i + 1]

Defeated(j) == bosses[j].health = 0

RunOver == phase \in {"RunWon", "RunLost", "aborted"}

\* the records a step appends to the log
Appended == SubSeq(log', Len(log) + 1, Len(log'))

LogExtended == Len(log') >= Len(log) /\ SubSeq(log', 1, Len(log)) = log

\* the number of attacks of the current enemy on the player that a step logs
EnemyAttacks ==
    Cardinality({k \in 1 .. Len(Appended) :
                    /\ Appended[k].attacker = Enemy.name
                    /\ Appended[k].defender = player.name
                    /\ Appended[k].damage > 0})

\* a step of the turn engine that took the given branch
Took(action) == phase = "AwaitingAction" /\ lastAction' = action

(***************************************************************************)
(* C1: the encounters are Goblin King, Dark Sorcerer, Shadow Knight in     *)
(* this order; an encounter is in progress only when all earlier enemies   *)
(* are defeated; a run that ended as a loss left every later enemy         *)
(* untouched; a run is over only as a loss in the current encounter or as  *)
(* a win, and it is a win exactly when all three enemies are defeated.     *)
(***************************************************************************)
C1_EncounterSequencing ==
    bosses # <<>> =>
        /\ <<bosses[1].name, bosses[2].name, bosses[3].name>>
               = <<"Goblin King", "Dark Sorcerer", "Shadow Knight">>
        /\ \A j \in 1 .. 3 : (j <= i => Defeated(j))
        /\ \A j \in 1 .. 3 : (j > i + 1 => bosses[j].health = InitialBosses[j].health)
        /\ phase = "RunLost" => (player.health = 0 /\ ~Defeated(i + 1))
        /\ phase = "RunWon" <=> (\A j \in 1 .. 3 : Defeated(j))
        /\ RunOver => phase \in {"RunWon", "RunLost"}

(***************************************************************************)
(* C2 as stated: an Attack that brings the enemy's health to 0 ends the    *)
(* encounter as a win in that round, the player's experience grows by the  *)
(* enemy's damage x 10 through gain_experience, the loot is resolved, the  *)
(* enemy does not strike back and the player's health is unchanged.        *)
(***************************************************************************)
KillingBlow == Took("Attack") /\ bosses'[i + 1].health = 0

ExperienceGained ==
    LET xp == Enemy.damage * 10
    IN  IF player.experience + xp >= 100 * player.level
        THEN /\ player'.level = player.level + 1
             /\ player'.experience = 0
        ELSE /\ player'.level = player.level
             /\ player'.experience = player.experience + xp

WinResolved ==
    /\ phase' = "EncounterWon"
    /\ ExperienceGained
    /\ inventory'.gold = inventory.gold + Enemy.damage * 5
    /\ LogExtended /\ Len(Appended) = 1
    /\ Appended[1].attacker = player.name
    /\ EnemyAttacks = 0

C2_AsStated == [][KillingBlow => (WinResolved /\ player'.health = player.health)]_vars

(***************************************************************************)
(* C2 amended: as above, but the player's health is unchanged only when    *)
(* the experience causes no level-up; when it does (the win over the Dark  *)
(* Sorcerer) the health becomes floor(1.2 x health).                       *)
(***************************************************************************)
C2_WinInSameRound ==
    [][KillingBlow =>
          /\ WinResolved
          /\ player'.health = IF player'.level = player.level THEN player.health
                              ELSE (12 * player.health) \div 10]_vars

C2_Witness ==
    /\ phase = "EncounterWon" /\ lastAction = "Attack"
    /\ player.level = 2 /\ Defeated(2) /\ ~Defeated(3)

(***************************************************************************)
(* C3: in a round with Attack (enemy surviving) or SidekickAction the      *)
(* enemy attacks the player exactly once, and the encounter is lost if     *)
(* that leaves the player at health 0 and otherwise awaits the next        *)
(* action; in a round with UseItem or ViewInventory the enemy does not     *)
(* attack.                                                                 *)
(***************************************************************************)
C3_EnemyTurn ==
    [][/\ ((Took("Attack") /\ bosses'[i + 1].health > 0) \/ Took("SidekickAction")) =>
              /\ LogExtended /\ EnemyAttacks = 1
              /\ Appended[Len(Appended)].attacker = Enemy.name
              /\ player'.health = 0 => phase' = "EncounterLost"
              /\ player'.health > 0 => phase' = "AwaitingAction"
       /\ (Took("UseItem") \/ Took("ViewInventory")) =>
              /\ LogExtended /\ EnemyAttacks = 0]_vars

C3_Witness ==
    /\ phase = "EncounterLost" /\ lastAction = "SidekickAction"
    /\ player.health = 0
    /\ log[Len(log)].attacker = Enemy.name

(***************************************************************************)
(* C4: UseItem with a Health Potion in the inventory removes exactly one   *)
(* unit of the stack, raises the player's health by 20, lets no enemy      *)
(* attack happen and returns to the action menu.                           *)
(***************************************************************************)
C4_UseItemConsumes ==
    [][(Took("UseItem") /\ Quantity(inventory, "Health Potion") > 0) =>
          /\ Quantity(inventory', "Health Potion") = Quantity(inventory, "Health Potion") - 1
          /\ player'.health = player.health + 20
          /\ log' = log
          /\ phase' = "AwaitingAction"]_vars

(***************************************************************************)
(* C5: no run is aborted by an error: every step of the program leads to   *)
(* a defined state and a finished run is a win or a loss.                  *)
(***************************************************************************)
C5_NeverAborted == phase # "aborted"

(***************************************************************************)
(* C6: SidekickAction is on the menu exactly while a companion is present  *)
(* (not in encounter 1, always in encounters 2 and 3); without a companion *)
(* the menu is exactly Attack, UseItem, ViewInventory.  When chosen, the   *)
(* companion's support ability acts on the player (the Healing Spirit      *)
(* restores 15 health and logs it, the others do nothing) and the enemy    *)
(* still attacks once in the same round.                                   *)
(***************************************************************************)
\* the actions the menu offers: the branches reached by the accepted inputs
Menu ==
    {Dispatch(c, sidekicks) :
        c \in {d \in Inputs : get_valid_input(d, Options(sidekicks)).valid}}

MenuMatchesCompanion ==
    phase = "AwaitingAction" =>
        /\ Len(sidekicks) = 0 => Menu = {"Attack", "UseItem", "ViewInventory"}
        /\ Len(sidekicks) > 0 =>
               Menu = {"Attack", "UseItem", "SidekickAction", "ViewInventory"}
        /\ i = 0 => "SidekickAction" \notin Menu
        /\ i > 0 => "SidekickAction" \in Menu

SidekickRound ==
    Took("SidekickAction") =>
        LET healed == IF sidekicks[1].name = "Healing Spirit" THEN 15 ELSE 0
            strike == Appended[Len(Appended)]
        IN  /\ Len(sidekicks) > 0
            /\ LogExtended
            /\ Len(Appended) = IF healed > 0 THEN 2 ELSE 1
            /\ healed > 0 =>
                   Appended[1] = [attacker |-> sidekicks[1].name,
                                  defender |-> player.name,
                                  damage |-> 0 - healed, ability |-> "Heal"]
            /\ strike.attacker = Enemy.name /\ strike.defender = player.name
            /\ strike.damage > 0
            /\ player'.health = Max(0, player.health + healed - strike.damage)
            /\ bosses' = bosses

C7_ViewInventoryReadOnly ==
    [][Took("ViewInventory") =>
          /\ UNCHANGED <<player, bosses, sidekicks, inventory, log, i>>
          /\ phase' = "AwaitingAction"]_vars

C7_Witness ==
    /\ lastAction = "ViewInventory" /\ phase = "AwaitingAction"
    /\ Quantity(inventory, "Health Potion") > 0
    /\ Len(log) > 0

(***************************************************************************)
(* C8: the companion list holds at most one companion; it is empty until   *)
(* encounter 1 is won and the selection was made, and once the sequencer   *)
(* has passed the selection step before encounter 2 it holds exactly one   *)
(* of the three companions until the end of the run.                       *)
(***************************************************************************)
CompanionNames == {"Healing Spirit", "Battle Hound", "Shield Guardian"}

C8_CompanionSelectedOnce ==
    /\ Len(sidekicks) <= 1
    /\ (i = 0 \/ (i = 1 /\ phase = "sequencer")) => sidekicks = <<>>
    /\ (i >= 1 /\ phase # "sequencer") =>
           (Len(sidekicks) = 1 /\ sidekicks[1].name \in CompanionNames)

(***************************************************************************)
(* C9: the gold held is the sum of damage x 5 over the enemies defeated so *)
(* far (40 for the Goblin King, 45 for the Dark Sorcerer, 60 for the       *)
(* Shadow Knight); it changes only in the step that wins an encounter, by  *)
(* exactly the defeated enemy's damage x 5, and never decreases.           *)
(***************************************************************************)
GoldOfDefeated ==
    (IF Defeated(1) THEN 40 ELSE 0) + (IF Defeated(2) THEN 45 ELSE 0)
        + (IF Defeated(3) THEN 60 ELSE 0)

GoldStep ==
    /\ inventory'.gold >= inventory.gold
    /\ inventory'.gold # inventory.gold =>
           /\ KillingBlow /\ phase' = "EncounterWon"
           /\ inventory'.gold = inventory.gold + 5 * Enemy.damage

C9_GoldIsSumOfWins == [](inventory.gold = GoldOfDefeated) /\ [][GoldStep]_vars

C9_Witness == phase = "EncounterWon" /\ Defeated(3) /\ inventory.gold = 145

(***************************************************************************)
(* C10: whenever the player's next Attack wins the encounter, each of the  *)
(* four loot outcomes (neither, potion only, armor only, both) is a        *)
(* possible result of that step, and the gold award is the enemy's         *)
(* damage x 5 in all four.                                                 *)
(***************************************************************************)
ArmorName == Enemy.name \o "'s Armor"

LootOutcome(potion, armor) ==
    /\ lastAction' = "Attack" /\ phase' = "EncounterWon"
    /\ Quantity(inventory', "Health Potion")
           = Quantity(inventory, "Health Potion") + (IF potion THEN 1 ELSE 0)
    /\ Quantity(inventory', ArmorName)
           = Quantity(inventory, ArmorName) + (IF armor THEN 1 ELSE 0)
    /\ inventory'.gold = inventory.gold + 5 * Enemy.damage

WinAtHand ==
    /\ phase = "AwaitingAction"
    /\ Enemy.health <= player.damage + player.weapon.damage_bonus

C10_LootRollsIndependent ==
    WinAtHand => \A potion \in BOOLEAN, armor \in BOOLEAN :
                     ENABLED (Round /\ LootOutcome(potion, armor))

C10_Witness ==
    /\ phase = "EncounterWon" /\ i = 0
    /\ Quantity(inventory, "Health Potion") = 1
    /\ Quantity(inventory, "Goblin King's Armor") = 1
    /\ inventory.gold = 40

\* a step that called the sidekick's use_support_ability
SupportStep == phase = "Sidekick" /\ lastAction' = "use_support_ability"

\* the amount the sidekick's heal is worth
HealAmount ==
    IF sidekicks[1].name = "Healing Spirit" THEN 15 ELSE sidekicks[1].damage \div 2

\* the step raised the target's health by amount and logged it, and nothing else
Healed(amount) ==
    /\ player' = [player EXCEPT !.health = player.health + amount]
    /\ log' = Append(log, [attacker |-> sidekicks[1].name, defender |-> player.name,
                           damage |-> 0 - amount, ability |-> sidekicks[1].ability])
    /\ UNCHANGED <<sidekicks, bosses, inventory>>

(***************************************************************************)
(* C11 as stated: use_support_ability of a sidekick whose ability is       *)
(* "Heal" raises the target's health by 15 when the sidekick is named      *)
(* "Healing Spirit" and by damage \div 2 otherwise, whatever the target's  *)
(* health, and appends exactly one log record with damage = -(heal amount) *)
(* tagged with the ability.                                                *)
(***************************************************************************)
C11_AsStated ==
    [][(SupportStep /\ sidekicks[1].ability = "Heal") => Healed(HealAmount)]_vars

(***************************************************************************)
(* C11: the same for every heal amount above 0 (a player at 95 healed by   *)
(* the Healing Spirit ends at 110 with a logged -15); a heal amount of 0   *)
(* (a healer of damage 0 or 1 not named "Healing Spirit") changes nothing  *)
(* and appends no log record.                                              *)
(***************************************************************************)
C11_HealOfPositiveAmount ==
    [][(SupportStep /\ sidekicks[1].ability = "Heal") =>
          IF HealAmount > 0
          THEN Healed(HealAmount)
          ELSE UNCHANGED <<player, log, sidekicks, bosses, inventory>>]_vars

C11_Witness ==
    /\ phase = "Sidekick"
    /\ lastAction = "use_support_ability"
    /\ sidekicks[1].name = "Healing Spirit"
    /\ sidekicks[1].ability = "Heal"
    /\ player.health = 110
    /\ log = <<[attacker |-> "Healing Spirit", defender |-> "Hero",
                damage |-> -15, ability |-> "Heal"]>>

\* a step that called the villain's use_special_ability
SpecialStep == phase = "Villain" /\ lastAction' = "use_special_ability"

\* no character's health changed, no log record was appended, the program goes on
NothingHappened ==
    /\ UNCHANGED <<player, sidekicks, bosses, inventory, log>>
    /\ phase' = phase

VillainAttackStep == phase = "Villain" /\ lastAction' = "Villain.attack"

\* the damage bonus of a character's weapon, 0 without one
WeaponBonus(c) == IF c.weapon = None THEN 0 ELSE c.weapon.damage_bonus

\* floor(1.25 * d)
FiveQuarters(d) == (5 * d) \div 4

\* the step hit the player for amount and appended the one record tagged tag
VillainHit(amount, tag) ==
    /\ player' = [player EXCEPT !.health =
                     IF player.health - amount > 0 THEN player.health - amount ELSE 0]
    /\ log' = Append(log, [attacker |-> bosses[1].name, defender |-> player.name,
                           damage |-> amount, ability |-> tag])
    /\ ret' = amount
    /\ UNCHANGED <<sidekicks, bosses, inventory>>

\* the tag is the villain's ability string, "Dark Magic" up to letter case
SpecialOutcome ==
    /\ Lower(bosses[1].ability) = "dark magic"
    /\ VillainHit(2 * bosses[1].damage + WeaponBonus(bosses[1]), bosses[1].ability)

NormalOutcome ==
    VillainHit(FiveQuarters(bosses[1].damage) + WeaponBonus(bosses[1]), "basic_attack")

(***************************************************************************)
(* C13 as stated: every call of Villain.attack is either the special       *)
(* branch (2 x damage + weapon bonus, logged with the tag "Dark Magic") or *)
(* the normal branch (floor(1.25 x damage) + weapon bonus, logged as       *)
(* basic_attack); the target's health drops by that amount, clamped at 0,  *)
(* and exactly one log record is appended.                                 *)
(***************************************************************************)
C13_AsStated == [][VillainAttackStep => (SpecialOutcome \/ NormalOutcome)]_vars

(***************************************************************************)
(* C13: for a villain whose special ability is Dark Magic, a call of       *)
(* Villain.attack is the special branch when the roll is below 0.2 and the *)
(* normal branch otherwise (29 or 20 for the Shadow Knight); for every     *)
(* villain the normal roll is the normal branch; on the special roll a     *)
(* villain with any other ability deals no damage, appends no log record   *)
(* and returns 0.                                                          *)
(***************************************************************************)
C13_VillainAttack ==
    [][VillainAttackStep =>
          /\ (args' = <<TRUE>> /\ Lower(bosses[1].ability) = "dark magic") =>
                 SpecialOutcome
          /\ (args' = <<TRUE>> /\ Lower(bosses[1].ability) # "dark magic") =>
                 (NothingHappened /\ ret' = 0)
          /\ args' = <<FALSE>> => NormalOutcome
          /\ (bosses[1].ability = "Dark Magic" /\ bosses[1].damage = 12
                /\ WeaponBonus(bosses[1]) = 5) => ret' \in {29, 20}]_vars

C13_Witness ==
    /\ phase = "Villain"
    /\ lastAction = "Villain.attack"
    /\ args = <<TRUE>>
    /\ bosses[1].name = "Shadow Knight"
    /\ bosses[1].damage = 12
    /\ ret = 29
    /\ player.health = 0
    /\ log = <<[attacker |-> "Shadow Knight", defender |-> "Hero",
                damage |-> 29, ability |-> "Dark Magic"]>>

\* self hit the target (targetAfter is the target after the step) with a plain attack
PlainAttack(self, target, targetAfter) ==
    LET total == self.damage + WeaponBonus(self)
    IN  /\ targetAfter = [target EXCEPT !.health =
                             IF target.health - total > 0 THEN target.health - total
                             ELSE 0]
        /\ log' = Append(log, [attacker |-> self.name, defender |-> target.name,
                               damage |-> total, ability |-> "basic_attack"])
        /\ ret' = total

(***************************************************************************)
(* C14: a plain attack, by the player and by a Boss alike, deals damage +  *)
(* the weapon's bonus: the target's health becomes max(0, health - total), *)
(* exactly one log record with damage = total is appended, and total is    *)
(* the value returned also when it exceeds the target's health.            *)
(***************************************************************************)
C14_PlainAttack ==
    [][/\ (phase = "Boss" /\ lastAction' = "Boss.attack") =>
              (PlainAttack(bosses[1], player, player') /\ bosses' = bosses)
       /\ (phase = "Boss" /\ lastAction' = "Character.attack") =>
              (PlainAttack(player, bosses[1], bosses'[1]) /\ player' = player)]_vars

\* the Goblin King hit a player of health 1 with its 8
C14_Witness ==
    /\ phase = "Boss"
    /\ lastAction = "Boss.attack"
    /\ bosses[1].name = "Goblin King"
    /\ ret = 8
    /\ player.health = 0
    /\ log = <<[attacker |-> "Goblin King", defender |-> "Hero",
                damage |-> 8, ability |-> "basic_attack"]>>

\* floor(1.2 * x)
SixFifths(x) == (6 * x) \div 5

(***************************************************************************)
(* C15: for a character at level L, gain_experience(a) with experience + a *)
(* >= 100 x L returns True and leaves level L + 1 (one level, whatever the *)
(* surplus), experience 0, health floor(1.2 x health), damage floor(1.2 x  *)
(* damage) and experience_to_next_level 100 x (L + 1); with experience + a *)
(* < 100 x L it returns False, adds a to experience and changes nothing    *)
(* else.                                                                   *)
(***************************************************************************)
C15_GainExperience ==
    [][\A a \in ExperienceAmounts :
          (phase = "Character" /\ lastAction' = "gain_experience" /\ args' = <<a>>) =>
              IF player.experience + a >= 100 * player.level
              THEN /\ ret' = TRUE
                   /\ player' = [player EXCEPT
                                    !.level = player.level + 1,
                                    !.experience = 0,
                                    !.health = SixFifths(player.health),
                                    !.damage = SixFifths(player.damage),
                                    !.experience_to_next_level =
                                        100 * (player.level + 1)]
              ELSE /\ ret' = FALSE
                   /\ player' = [player EXCEPT !.experience = player.experience + a]]_vars

\* a level 1 character of health 95 and damage 7 gained 1000 experience
C15_Witness ==
    /\ phase = "Character"
    /\ lastAction = "gain_experience"
    /\ args = <<1000>>
    /\ ret = TRUE
    /\ player.level = 2
    /\ player.experience = 0
    /\ player.health = 114
    /\ player.damage = 8
    /\ player.experience_to_next_level = 200

\* the characters that exist in a state
Characters ==
    (IF player = None THEN {} ELSE {player})
    \cup {bosses[k] : k \in 1 .. Len(bosses)}
    \cup {sidekicks[k] : k \in 1 .. Len(sidekicks)}

(***************************************************************************)
(* C16: in every reachable state of every character, after construction    *)
(* and after any sequence of gain_experience and level_up calls,           *)
(* experience_to_next_level = 100 x level.                                 *)
(***************************************************************************)
C16_ThresholdIsHundredTimesLevel ==
    \A c \in Characters : c.experience_to_next_level = 100 * c.level

\* a character constructed at level 2 after one call of level_up
C16_Witness ==
    /\ phase = "Character"
    /\ lastAction = "level_up"
    /\ player.level = 3
    /\ player.experience_to_next_level = 300

(***************************************************************************)
(* C17: take_damage(d) sets the health to max(0, health - d) for every     *)
(* d >= 0, also for d far above the health, and changes no other field of  *)
(* the character.                                                          *)
(***************************************************************************)
C17_TakeDamage ==
    [][\A d \in DamageAmounts :
          (phase = "Character" /\ lastAction' = "take_damage" /\ args' = <<d>>) =>
              player' = [player EXCEPT !.health =
                            IF player.health - d > 0 THEN player.health - d ELSE 0]]_vars

\* take_damage(1000) left the health of a character at 0
C17_Witness ==
    /\ phase = "Character"
    /\ lastAction = "take_damage"
    /\ args = <<1000>>
    /\ player.health = 0
    /\ player.level = 1
    /\ player.experience = 90

(***************************************************************************)
(* C18: in every reachable state of a run the health of the player, of     *)
(* every enemy and of the companion is >= 0, whatever the interleaving of  *)
(* attacks, heals, item use and level-ups; a character is dead (not alive, *)
(* and for the turn engine the loser of the encounter) exactly when its    *)
(* health is 0.                                                            *)
(***************************************************************************)
C18_HealthNeverNegative ==
    /\ \A c \in Characters : c.health >= 0 /\ (~is_alive(c) <=> c.health = 0)
    /\ phase = "EncounterLost" => player.health = 0
    /\ phase = "EncounterWon" => bosses[i + 1].health = 0
    /\ phase = "AwaitingAction" => (player.health # 0 /\ bosses[i + 1].health # 0)

\* the Shadow Knight's spell took more than the player had left
C18_Witness ==
    /\ phase = "EncounterLost"
    /\ player.health = 0
    /\ log[Len(log)].ability = "Dark Magic"
    /\ sidekicks # <<>>
    /\ sidekicks[1].health > 0

(***************************************************************************)
(* C19: calculate_damage(base) returns base + the damage bonus of the      *)
(* equipped weapon when there is one and exactly base when there is none,  *)
(* for every base, and changes no state of the character.                  *)
(***************************************************************************)
C19_CalculateDamage ==
    [][\A b \in 0 .. MaxBase :
          (phase = "Character" /\ lastAction' = "calculate_damage" /\ args' = <<b>>) =>
              /\ ret' = IF player.weapon = None THEN b
                        ELSE b + player.weapon.damage_bonus
              /\ UNCHANGED <<player, sidekicks, bosses, inventory, log>>]_vars

\* calculate_damage(2) of a character with a weapon of bonus 5
C19_Witness ==
    /\ phase = "Character"
    /\ lastAction = "calculate_damage"
    /\ args = <<2>>
    /\ player.weapon.name = "Rock"
    /\ player.weapon.damage_bonus = 5
    /\ ret = 7

(***************************************************************************)
(* C20: remove_item(name, q) returns False and leaves the whole inventory  *)
(* (every stack, the equipment, the gold) unchanged whenever there is no   *)
(* stack of that name or the stack holds less than q; remove_item          *)
(* ("Potion", 2) on an inventory with 1 Potion fails and the stack stays   *)
(* at 1.                                                                   *)
(***************************************************************************)
C20_RemoveItemFails ==
    [][\A n \in NameDraws, q \in 0 .. MaxQuantity :
          (/\ phase = "Inventory"
           /\ lastAction' = "remove_item"
           /\ args' = <<n, q>>
           /\ (n \notin DOMAIN inventory.items \/ inventory.items[n].quantity < q)) =>
              (ret' = FALSE /\ inventory' = inventory)]_vars

\* remove_item("Potion", 2) was called on an inventory of 1 Potion and 80 gold
C20_Witness ==
    /\ phase = "Inventory"
    /\ lastAction = "remove_item"
    /\ args = <<"Potion", 2>>
    /\ ret = FALSE
    /\ "Potion" \in DOMAIN inventory.items
    /\ inventory.items["Potion"].quantity = 1
    /\ inventory.gold = 80

\* the step changed nothing of the inventory but the stack named x
OnlyStackChanged(x) ==
    /\ DOMAIN inventory'.items \ {x} = DOMAIN inventory.items \ {x}
    /\ \A y \in DOMAIN inventory.items \ {x} : inventory'.items[y] = inventory.items[y]
    /\ inventory'.equipment = inventory.equipment
    /\ inventory'.gold = inventory.gold

(***************************************************************************)
(* C21: on an inventory with no stack for X, add_item(X, n) followed by    *)
(* remove_item(X, m) with 1 <= m <= n succeeds and leaves quantity n - m,  *)
(* the stack for X being absent exactly when m = n; all other stacks, the  *)
(* equipment and the gold are as before the add_item.  The formula speaks  *)
(* of the two steps: the add_item step creates the stack with quantity n   *)
(* and changes nothing else, and the remove_item step that follows it does *)
(* the rest.                                                               *)
(***************************************************************************)
C21_RoundTrip ==
    [][\A x \in NameDraws, n \in 1 .. MaxQuantity, m \in 1 .. MaxQuantity :
          /\ (/\ phase = "Inventory"
              /\ x \notin DOMAIN inventory.items
              /\ lastAction' = "add_item"
              /\ args' = <<x, n>>) =>
                 /\ x \in DOMAIN inventory'.items
                 /\ inventory'.items[x].quantity = n
                 /\ OnlyStackChanged(x)
          /\ (/\ phase = "Inventory"
              /\ lastAction = "add_item"
              /\ args = <<x, n>>
              /\ x \in DOMAIN inventory.items
              /\ inventory.items[x].quantity = n
              /\ m <= n
              /\ lastAction' = "remove_item"
              /\ args' = <<x, m>>) =>
                 /\ ret' = TRUE
                 /\ (x \in DOMAIN inventory'.items) <=> (m # n)
                 /\ m # n => inventory'.items[x].quantity = n - m
                 /\ OnlyStackChanged(x)]_vars

\* add_item(Gem, 2) then remove_item("Gem", 2), beside a stack of 1 Potion
C21_Witness ==
    /\ phase = "Inventory"
    /\ lastAction = "remove_item"
    /\ args = <<"Gem", 2>>
    /\ ret = TRUE
    /\ DOMAIN inventory.items = {"Potion"}
    /\ inventory.items["Potion"].quantity = 1
    /\ inventory.gold = 80

(***************************************************************************)
(* C22: in every inventory state reachable by add_item, remove_item and    *)
(* use_consumable calls with quantity arguments of at least 1, every stack *)
(* present in items has a quantity above 0: a stack that reaches zero is   *)
(* removed.                                                                *)
(***************************************************************************)
C22_StacksArePositive ==
    \A n \in DOMAIN inventory.items : inventory.items[n].quantity > 0

\* the last Potion was used while a Gem is held
C22_Witness ==
    /\ phase = "Inventory"
    /\ lastAction = "use_consumable"
    /\ args = <<"Potion">>
    /\ ret = TRUE
    /\ DOMAIN inventory.items = {"Gem"}
    /\ inventory.items["Gem"].quantity = 2

(***************************************************************************)
(* C23: use_consumable(item) returns True exactly when a stack named       *)
(* item.name exists and item is a Consumable; on success that stack loses  *)
(* exactly one unit (and is deleted at zero) and nothing else in the       *)
(* inventory changes; on failure the inventory is unchanged; in neither    *)
(* case does a character's health, the gold or the equipment change.       *)
(***************************************************************************)
C23_UseConsumable ==
    [][\A item \in ItemDraws :
          (/\ phase = "Inventory"
           /\ lastAction' = "use_consumable"
           /\ args' = <<item.name>>) =>
              LET x == item.name
                  ok == x \in DOMAIN inventory.items /\ item.cls = "Consumable"
              IN  /\ ret' = ok
                  /\ IF ok
                     THEN /\ OnlyStackChanged(x)
                          /\ IF inventory.items[x].quantity = 1
                             THEN x \notin DOMAIN inventory'.items
                             ELSE /\ x \in DOMAIN inventory'.items
                                  /\ inventory'.items[x].quantity =
                                         inventory.items[x].quantity - 1
                     ELSE inventory' = inventory
                  /\ UNCHANGED <<player, sidekicks, bosses>>
                  /\ inventory'.gold = inventory.gold
                  /\ inventory'.equipment = inventory.equipment]_vars

\* the step of equip_item(item) put item in the slot and changed nothing else
Equipped(item, slot, other) ==
    /\ ret' = TRUE
    /\ inventory'.equipment[slot] = item
    /\ inventory'.equipment[other] = inventory.equipment[other]
    /\ inventory'.items = inventory.items
    /\ inventory'.gold = inventory.gold

(***************************************************************************)
(* C24: equip_item(item) puts a Weapon in the weapon slot and an Armor in  *)
(* the armor slot, returns True and leaves the other slot, all stacks and  *)
(* the gold unchanged; for any other item (a plain Item, a Consumable) it  *)
(* returns False and leaves the inventory entirely unchanged.  The         *)
(* equipment always has exactly the two slots weapon and armor.            *)
(***************************************************************************)
C24_EquipItem ==
    /\ [](DOMAIN inventory.equipment = {"weapon", "armor"})
    /\ [][\A item \in EquipDraws :
             (/\ phase = "Inventory"
              /\ lastAction' = "equip_item"
              /\ args' = <<item.name>>) =>
                 CASE item.cls = "Weapon" -> Equipped(item, "weapon", "armor")
                   [] item.cls = "Armor" -> Equipped(item, "armor", "weapon")
                   [] OTHER -> ret' = FALSE /\ inventory' = inventory]_vars

\* the Shield was equipped while the Rock is in the weapon slot and a Gem is held
C24_Witness ==
    /\ phase = "Inventory"
    /\ lastAction = "equip_item"
    /\ args = <<"Shield">>
    /\ ret = TRUE
    /\ inventory.equipment.armor # None
    /\ inventory.equipment.armor.name = "Shield"
    /\ inventory.equipment.weapon # None
    /\ inventory.equipment.weapon.name = "Rock"
    /\ "Gem" \in DOMAIN inventory.items

\* the sum over the stacks named in S of item.value * quantity
RECURSIVE StackValue(_, _)
StackValue(inv, S) ==
    IF S = {} THEN 0
    ELSE LET n == CHOOSE m \in S : TRUE
         IN  inv.items[n].item.value * inv.items[n].quantity
                 + StackValue(inv, S \ {n})

(***************************************************************************)
(* C25: get_total_value() returns gold + the sum over all stacks of        *)
(* item.value x quantity, for every inventory state, also for inventories  *)
(* that hold one or more stacks, and changes nothing.                      *)
(***************************************************************************)
C25_GetTotalValue ==
    [][(phase = "Inventory" /\ lastAction' = "get_total_value") =>
          /\ phase' = "Inventory"
          /\ ret' = inventory.gold + StackValue(inventory, DOMAIN inventory.items)
          /\ inventory' = inventory]_vars

\* a log record as log_combat builds it: the two names, the signed damage and
\* the ability tag, which is never empty
WellFormed(r) ==
    /\ DOMAIN r = {"attacker", "defender", "damage", "ability"}
    /\ r.attacker \in {c.name : c \in Characters}
    /\ r.defender \in {c.name : c \in Characters}
    /\ r.damage \in Int
    /\ r.ability # ""
    /\ r.ability = "basic_attack" => r.damage >= 0

\* the number of log_combat calls a round of the turn engine makes: one for the
\* player's attack or the companion's heal, one for the enemy's attack
CallsOfRound ==
    CASE Took("Attack") -> IF bosses'[i + 1].health > 0 THEN 2 ELSE 1
      [] Took("SidekickAction") ->
             IF Lower(sidekicks[1].ability) = "heal" THEN 2 ELSE 1
      [] OTHER -> 0

(***************************************************************************)
(* C26: the combat log is append-only.  Each log_combat call appends       *)
(* exactly one record {attacker name, defender name, signed damage,        *)
(* ability tag or 'basic_attack'} at the end; no step removes, reorders or *)
(* modifies an existing record, so the length never decreases and the      *)
(* order is the order of the combat events (the player's or companion's    *)
(* record of a round before the enemy's).                                  *)
(***************************************************************************)
C26_LogAppendOnly ==
    [][/\ Len(log') >= Len(log)
       /\ SubSeq(log', 1, Len(log)) = log
       /\ \A k \in 1 .. Len(Appended) : WellFormed(Appended[k])
       /\ phase = "AwaitingAction" =>
              /\ Len(Appended) = CallsOfRound
              /\ Len(Appended) = 2 =>
                     /\ Appended[1].attacker \in
                            {player.name} \cup {sidekicks[k].name : k \in 1 .. Len(sidekicks)}
                     /\ Appended[2].attacker = Enemy.name]_vars

\* two rounds of Attack and the enemy's answer, then a third Attack
C26_Witness ==
    /\ phase = "AwaitingAction"
    /\ lastAction = "Attack"
    /\ Len(log) = 6
    /\ \A k \in {1, 3, 5} : log[k].attacker = player.name /\ log[k].defender = Enemy.name
    /\ \A k \in {2, 4, 6} : log[k].attacker = Enemy.name /\ log[k].defender = player.name

\* the positions of the log whose record is an attack by the player
PlayerRecords == {k \in 1 .. Len(log) : log[k].attacker = player.name}

(***************************************************************************)
(* C27: a player with health 110, damage 10 and a +2 weapon who fights the *)
(* Goblin King (health 50, damage 8) deals 12 per attack; the boss's       *)
(* health reaches 0 on exactly the fifth attack and not earlier, the       *)
(* encounter is then won, the experience gained is 80 and the gold added   *)
(* is 40.                                                                  *)
(***************************************************************************)
C27_FiveAttacksWin ==
    (/\ phase \in {"AwaitingAction", "EncounterWon", "EncounterLost"}
     /\ i = 0
     /\ player.weapon # None
     /\ player.weapon.damage_bonus = 2) =>
        LET n == Cardinality(PlayerRecords)
        IN  /\ \A k \in PlayerRecords : log[k].damage = 12
            /\ n <= 5
            /\ bosses[1].health = IF n = 5 THEN 0 ELSE 50 - 12 * n
            /\ phase = "EncounterWon" <=> n = 5
            /\ player.experience = IF n = 5 THEN 80 ELSE 0
            /\ inventory.gold = IF n = 5 THEN 40 ELSE 0
            /\ player.damage = 10

\* the fifth attack, after four answers of 8 by the Goblin King
C27_Witness ==
    /\ phase = "EncounterWon"
    /\ i = 0
    /\ player.weapon.damage_bonus = 2
    /\ Len(log) = 9
    /\ log[9] = [attacker |-> "Hero", defender |-> "Goblin King",
                 damage |-> 12, ability |-> "basic_attack"]
    /\ bosses[1].health = 0
    /\ player.health = 78
    /\ player.experience = 80
    /\ inventory.gold = 40

HasResult == phase \in {"EncounterWon", "EncounterLost"}

\* the outcomes of an encounter match the healths
OutcomeMatchesHealth ==
    /\ phase = "EncounterWon" => (Enemy.health = 0 /\ player.health > 0)
    /\ phase = "EncounterLost" => (player.health = 0 /\ Enemy.health > 0)
    /\ (Enemy.health = 0 /\ player.health > 0) => phase = "EncounterWon"
    /\ (player.health = 0 /\ Enemy.health > 0) => phase = "EncounterLost"
    /\ ~(player.health = 0 /\ Enemy.health = 0)

(***************************************************************************)
(* C29: the outcome of an encounter is well defined: it is a win exactly   *)
(* when the enemy's health is 0 and the player's is above 0, a loss        *)
(* exactly when the player's health is 0 and the enemy's is above 0; no    *)
(* encounter ends with both alive or both dead, and the turn loop never    *)
(* exits without returning a result (it is either awaiting an action with  *)
(* both alive, or over with a result).                                     *)
(***************************************************************************)
C29_OutcomeWellDefined ==
    /\ OutcomeMatchesHealth
    /\ phase = "AwaitingAction" \/ HasResult
    /\ phase = "AwaitingAction" => (player.health > 0 /\ Enemy.health > 0)

(***************************************************************************)
(* The turn engine with a player who keeps choosing Attack: while combat   *)
(* waits at its menu the choice "1" is always among the options            *)
(* (game.py:225), so a player who does not withhold it for ever takes it.  *)
(***************************************************************************)
AttackRound ==
    \E typedItem \in Inputs, potion \in BOOLEAN, armor \in BOOLEAN,
       special \in BOOLEAN :
        CombatRound("1", typedItem, potion, armor, special)

FairCombatSpec == CombatSpec /\ WF_vars(AttackRound)

\* a player attack lowers the enemy's health by at least 11 (or to 0), and no
\* step raises it
EnemyHealthOnlyFalls ==
    [][/\ bosses'[i + 1].health <= bosses[i + 1].health
       /\ lastAction' = "Attack" =>
              \/ bosses'[i + 1].health = 0
              \/ bosses'[i + 1].health <= bosses[i + 1].health - 11]_vars

\* the encounter ends, with a result or by the error that leaves combat
EncounterEnds == <>(HasResult \/ phase = "aborted")

(***************************************************************************)
(* C30: if the player keeps choosing Attack, every encounter eventually    *)
(* reaches EncounterWon or EncounterLost.                                  *)
(***************************************************************************)
C30_Termination == <>(phase = "EncounterWon" \/ phase = "EncounterLost")

\* no heal took place: a heal by the companion is a log record with a negative
\* damage, and the run was not left from use_item
NeverHealed ==
    /\ \A k \in 1 .. Len(log) : log[k].damage >= 0
    /\ lastAction # "UseItem"

(***************************************************************************)
(* C31: a run in which the player never heals ends as a loss in encounter  *)
(* 3, against the Shadow Knight: when such a run is over, it was lost with *)
(* the first two bosses defeated and the Shadow Knight alive.              *)
(***************************************************************************)
C31_NoHealLosesToShadowKnight ==
    (RunOver /\ NeverHealed) =>
        /\ phase = "RunLost"
        /\ i = 2
        /\ bosses[1].health = 0 /\ bosses[2].health = 0 /\ bosses[3].health > 0
        /\ player.health = 0

\* the number of attacks the Goblin King has made
GoblinKingAttacks ==
    Cardinality({k \in 1 .. Len(log) : log[k].attacker = "Goblin King"})

(***************************************************************************)
(* C32: the first encounter cannot be lost.  Against the Goblin King the   *)
(* player, who starts at health 110, is attacked at most 4 times (8 health *)
(* each), so the health stays at 78 or more and the encounter and the run  *)
(* are never lost there.                                                   *)
(***************************************************************************)
C32_FirstEncounterNeverLost ==
    (i = 0 /\ player # None) =>
        /\ phase # "EncounterLost" /\ phase # "RunLost"
        /\ GoblinKingAttacks <= 4
        /\ player.health = 110 - 8 * GoblinKingAttacks

\* the Goblin King has made his four attacks
C32_Witness ==
    /\ i = 0 /\ phase = "AwaitingAction" /\ lastAction = "Attack"
    /\ bosses[1].name = "Goblin King" /\ bosses[1].health > 0
    /\ player.health = 78

(***************************************************************************)
(* C33: the player is at level 1 with base damage 10 until the Dark        *)
(* Sorcerer is defeated, and at level 2 with base damage 12 from then on:  *)
(* the 80 experience of the Goblin King does not reach the threshold 100,  *)
(* the 90 of the Dark Sorcerer passes it once (the experience goes back to *)
(* 0 and the threshold to 200), and the 120 of the Shadow Knight does not  *)
(* reach 200.  Level 3 is never reached.                                   *)
(***************************************************************************)
C33_LevelTwoAfterDarkSorcerer ==
    /\ bosses[1].health > 0 =>
           player.level = 1 /\ player.damage = 10 /\ player.experience = 0
    /\ (bosses[1].health = 0 /\ bosses[2].health > 0) =>
           player.level = 1 /\ player.damage = 10 /\ player.experience = 80
    /\ (bosses[2].health = 0 /\ bosses[3].health > 0) =>
           player.level = 2 /\ player.damage = 12 /\ player.experience = 0
    /\ bosses[3].health = 0 =>
           player.level = 2 /\ player.damage = 12 /\ player.experience = 120

\* the Dark Sorcerer has just been defeated
C33_Witness ==
    /\ phase = "EncounterWon" /\ i = 1 /\ bosses[2].health = 0
    /\ player.level = 2 /\ player.experience_to_next_level = 200

(***************************************************************************)
(* C34: after gain_experience with an amount of 0 or more, the experience  *)
(* of the character is at least 0 and below experience_to_next_level.      *)
(***************************************************************************)
C34_ExperienceBelowThreshold ==
    (phase = "Character" /\ lastAction = "gain_experience" /\ args[1] >= 0) =>
        /\ 0 <= player.experience
        /\ player.experience < player.experience_to_next_level

\* the gain that reached the threshold of level 1 exactly
C34_Witness ==
    /\ phase = "Character" /\ lastAction = "gain_experience" /\ args = <<50>>
    /\ ret = TRUE /\ player.level = 2
    /\ player.experience = 0 /\ player.experience_to_next_level = 200

EnemyStruck ==
    /\ phase = "AwaitingAction"
    /\ Len(log') > Len(log)
    /\ log'[Len(log')].attacker = Enemy.name

\* the health the companion restored in this round, before the enemy struck
RoundHeal ==
    IF lastAction' = "SidekickAction" /\ Len(log') = Len(log) + 2
    THEN 0 - log'[Len(log) + 1].damage
    ELSE 0

\* the blows the enemy can deal, by his own attributes alone: damage plus weapon
\* bonus for a Boss; for a Villain 1.25 x damage, or 2 x damage with the spell
EnemyBlows ==
    IF Enemy.cls = "Villain"
    THEN {FiveQuarters(Enemy.damage) + WeaponBonus(Enemy),
          2 * Enemy.damage + WeaponBonus(Enemy)}
    ELSE {Enemy.damage + WeaponBonus(Enemy)}

\* an armor is among the items held
ArmorHeld == \E n \in DOMAIN inventory.items : inventory.items[n].item.cls = "Armor"

(***************************************************************************)
(* C36: armor never affects combat.  Both equipment slots are empty in     *)
(* every state, and the amount by which an enemy attack lowers the         *)
(* player's health is given by the enemy's attributes alone: it is the     *)
(* same whatever the inventory holds, looted armor included.               *)
(***************************************************************************)
C36_ArmorNeverApplies ==
    /\ [](inventory.equipment.weapon = None /\ inventory.equipment.armor = None)
    /\ [][EnemyStruck =>
              \E blow \in EnemyBlows :
                  /\ log'[Len(log')].damage = blow
                  /\ player'.health = Max(0, player.health + RoundHeal - blow)
                  /\ inventory' = inventory]_vars

\* the Dark Sorcerer struck a player who holds the Goblin King's Armor
C36_Witness ==
    /\ i = 1 /\ lastAction = "Attack" /\ phase = "AwaitingAction"
    /\ ArmorHeld /\ inventory.equipment.armor = None
    /\ Len(log) = 2 /\ log[2].attacker = "Dark Sorcerer" /\ log[2].damage = 9
    /\ player.health + 9 \in EntryHealths

C38_NoZeroQuantityStack ==
    [][/\ \A n \in DOMAIN inventory'.items : inventory'.items[n].quantity > 0
       /\ (lastAction' = "add_item" /\ args'[2] = 0
              /\ args'[1] \notin DOMAIN inventory.items) =>
              args'[1] \notin DOMAIN inventory'.items]_vars

====
